---- MODULE Spec2Model ----
(***************************************************************************)
(* Tasmota firmware update entity (custom_components/tasmota_beta/update.py)*)
(* as a state machine: the process-wide release cache and its refresh       *)
(* routine, the dispatcher fan-out to the update entities, and each         *)
(* entity's update session (install, status reports, availability).         *)
(*                                                                          *)
(* Python values are represented as follows.                                *)
(*   str that the code parses (versions, release notes): a sequence of      *)
(*       one-character strings; None is the distinguished sequence None.    *)
(*   str that the code only stores and passes on (URLs): a TLA+ string;     *)
(*       None is NoUrl.                                                     *)
(*   datetime | None: <<t>> with t in minutes, None is <<>>.                *)
(***************************************************************************)
EXTENDS Integers, Sequences, FiniteSets, TLC

\* ------------------------------------------------------------------ bounds
\* Clock values run from 0 to MaxTime (minutes).
MaxTime == 7
\* Upgrade commands counted per entity (the counter is capped, not the code).
MaxPublished == 2
\* Clock values where only the release cache is followed.
MaxReleaseTime == 2
\* Periodic refreshes fired by the interval timer after the start-up refresh.
MaxRefresh == 1
\* Install requests followed along one staged upgrade path.
MaxHops == 7

\* ----------------------------------------------------------- Python values
None == <<"None">>
NoUrl == "<None>"
NoTime == <<>>
EmptyStr == <<>>

\* bool(x) of a str | None value: None and "" are falsy.
Truthy(s) == s # None /\ s # EmptyStr

Digits == {"0", "1", "2", "3", "4", "5", "6", "7", "8", "9"}

DigitVal(c) ==
    CASE c = "0" -> 0 [] c = "1" -> 1 [] c = "2" -> 2 [] c = "3" -> 3
      [] c = "4" -> 4 [] c = "5" -> 5 [] c = "6" -> 6 [] c = "7" -> 7
      [] c = "8" -> 8 [] c = "9" -> 9

DigitChar(n) ==
    CASE n = 0 -> "0" [] n = 1 -> "1" [] n = 2 -> "2" [] n = 3 -> "3"
      [] n = 4 -> "4" [] n = 5 -> "5" [] n = 6 -> "6" [] n = 7 -> "7"
      [] n = 8 -> "8" [] n = 9 -> "9"

\* int(segment) of a run of digits.
RECURSIVE NumVal(_)
NumVal(seg) ==
    IF seg = <<>> THEN 0
    ELSE 10 * NumVal(SubSeq(seg, 1, Len(seg) - 1)) + DigitVal(seg[Len(seg)])

\* str(n) of a non-negative int.
RECURSIVE IntStr(_)
IntStr(n) ==
    IF n < 10 THEN <<DigitChar(n)>>
    ELSE IntStr(n \div 10) \o <<DigitChar(n % 10)>>

\* s.split(".")
RECURSIVE SplitDots(_)
SplitDots(s) ==
    IF \A i \in 1..Len(s) : s[i] # "."
    THEN <<s>>
    ELSE LET i == CHOOSE k \in 1..Len(s) :
                      s[k] = "." /\ \A j \in 1..(k - 1) : s[j] # "."
         IN  <<SubSeq(s, 1, i - 1)>> \o SplitDots(SubSeq(s, i + 1, Len(s)))

\* ".".join(parts)
RECURSIVE JoinDots(_)
JoinDots(parts) ==
    IF Len(parts) = 0 THEN <<>>
    ELSE IF Len(parts) = 1 THEN parts[1]
    ELSE parts[1] \o <<".">> \o JoinDots(Tail(parts))

\* ------------------------------------------------- _parse_installed_version
\* Length of the match of ^([\d.]+): the leading run of digits and dots.
RECURSIVE LeadingRun(_)
LeadingRun(s) ==
    IF s = <<>> THEN 0
    ELSE IF s[1] \in Digits \cup {"."} THEN 1 + LeadingRun(Tail(s))
    ELSE 0

\* The match with a trailing dot dropped.
parse_installed_version_StripDot(version_str) ==
    IF ~Truthy(version_str) THEN EmptyStr
    ELSE IF LeadingRun(version_str) > 1
            /\ version_str[LeadingRun(version_str)] = "."
         THEN SubSeq(version_str, 1, LeadingRun(version_str) - 1)
    ELSE IF LeadingRun(version_str) > 0
         THEN SubSeq(version_str, 1, LeadingRun(version_str))
         ELSE version_str

parse_installed_version(version_str) ==
    IF ~Truthy(version_str) THEN EmptyStr
    ELSE IF LeadingRun(version_str) > 0
         THEN SubSeq(version_str, 1, LeadingRun(version_str))
         ELSE version_str

\* ------------------------------------------------ packaging.version.Version
\* Version(s) for strings over digits, ".", "v", "(", ")", "t", "x": an
\* optional leading "v", then non-empty runs of digits separated by single
\* dots. InvalidVersion is the record with ok = FALSE.
VersionBody(s) == IF s # <<>> /\ s[1] = "v" THEN Tail(s) ELSE s

ValidVersion(s) ==
    LET parts == SplitDots(VersionBody(s))
    IN  /\ s # None
        /\ \A i \in 1..Len(parts) :
              /\ parts[i] # <<>>
              /\ \A j \in 1..Len(parts[i]) : parts[i][j] \in Digits

Version(s) ==
    IF ValidVersion(s)
    THEN LET parts == SplitDots(VersionBody(s))
         IN  [ok |-> TRUE, release |-> [i \in 1..Len(parts) |-> NumVal(parts[i])]]
    ELSE [ok |-> FALSE, release |-> <<>>]

\* Version._key drops the trailing zeros of the release before comparing.
RECURSIVE StripZeros(_)
StripZeros(r) ==
    IF r # <<>> /\ r[Len(r)] = 0 THEN StripZeros(SubSeq(r, 1, Len(r) - 1)) ELSE r

\* Python's tuple order on two tuples of ints.
RECURSIVE TupleLess(_, _)
TupleLess(a, b) ==
    IF b = <<>> THEN FALSE
    ELSE IF a = <<>> THEN TRUE
    ELSE IF a[1] # b[1] THEN a[1] < b[1]
    ELSE TupleLess(Tail(a), Tail(b))

\* Version.__lt__
VersionLess(v, w) == TupleLess(StripZeros(v.release), StripZeros(w.release))

\* str(Version)
VersionStr(v) == JoinDots([i \in 1..Len(v.release) |-> IntStr(v.release[i])])

\* ------------------------------------------------------- module constants
\* UPDATE_TIMEOUT = timedelta(minutes=5), in minutes.
UPDATE_TIMEOUT == 5

V_3_9_0 == <<"3", ".", "9", ".", "0">>
V_4_0_0 == <<"4", ".", "0", ".", "0">>
V_5_14_0 == <<"5", ".", "1", "4", ".", "0">>
V_6_7_1 == <<"6", ".", "7", ".", "1">>
V_7_2_0 == <<"7", ".", "2", ".", "0">>
V_8_5_1 == <<"8", ".", "5", ".", "1">>
V_9_1_0 == <<"9", ".", "1", ".", "0">>

UPGRADE_STEPS ==
    << [threshold |-> Version(V_3_9_0), url |-> NoUrl],
       [threshold |-> Version(V_4_0_0), url |-> NoUrl],
       [threshold |-> Version(V_5_14_0),
        url |-> "http://ota.tasmota.com/tasmota/release_5.14.0/sonoff.bin"],
       [threshold |-> Version(V_6_7_1),
        url |-> "http://ota.tasmota.com/tasmota/release_6.7.1/sonoff.bin"],
       [threshold |-> Version(V_7_2_0),
        url |-> "http://ota.tasmota.com/tasmota/release-7.2.0/tasmota.bin"],
       [threshold |-> Version(V_8_5_1),
        url |-> "http://ota.tasmota.com/tasmota/release-8.5.1/tasmota.bin"],
       [threshold |-> Version(V_9_1_0),
        url |-> "http://ota.tasmota.com/tasmota/release-9.1.0/tasmota.bin.gz"] >>

LATEST_URL == "http://ota.tasmota.com/tasmota/release/tasmota.bin.gz"

GITHUB_RELEASE_PAGE == "https://github.com/arendst/Tasmota/releases/latest"

\* ------------------------------------------------- _fetch_latest_release
\* A key that the JSON object does not hold (None is a JSON null).
Absent == <<"Absent">>
AbsentUrl == "<Absent>"

\* dict.get(key, default)
DictGet(value, absent, default) == IF value = absent THEN default ELSE value

\* tag.lstrip("v")
RECURSIVE LStripV(_)
LStripV(s) == IF s # <<>> /\ s[1] = "v" THEN LStripV(Tail(s)) ELSE s

\* release_notes.split("\n\n")[0]
RECURSIVE FirstPara(_)
FirstPara(s) ==
    IF Len(s) < 2 THEN s
    ELSE IF s[1] = "\n" /\ s[2] = "\n" THEN <<>>
    ELSE <<s[1]>> \o FirstPara(Tail(s))

\* re.sub of the markdown markers (hash, star, backtick) by nothing
\* (the backtick cannot be written in a TLA+ string: Backtick stands for it)
Backtick == "<backtick>"

StripMarkdown(s) == SelectSeq(s, LAMBDA c : c \notin {"#", "*", Backtick})

\* s.strip()
RECURSIVE LStripSpace(_)
LStripSpace(s) ==
    IF s # <<>> /\ s[1] \in {" ", "\n"} THEN LStripSpace(Tail(s)) ELSE s

RECURSIVE RStripSpace(_)
RStripSpace(s) ==
    IF s # <<>> /\ s[Len(s)] \in {" ", "\n"}
    THEN RStripSpace(SubSeq(s, 1, Len(s) - 1))
    ELSE s

StripSpace(s) == RStripSpace(LStripSpace(s))

Summary(release_notes) ==
    IF ~Truthy(release_notes) THEN EmptyStr
    ELSE LET first_para == FirstPara(release_notes)
             cut == IF Len(first_para) > 250
                    THEN SubSeq(first_para, 1, 250) \o <<".", ".", ".">>
                    ELSE first_para
         IN  StripSpace(StripMarkdown(cut))

\* The dict built from a 200 response whose JSON body is the object `data`.
ReleaseDict(data) ==
    LET tag == DictGet(data.tag_name, Absent, EmptyStr)
        release_notes == DictGet(data.body, Absent, EmptyStr)
    IN  [version |-> LStripV(tag),
         release_url |-> DictGet(data.html_url, AbsentUrl, GITHUB_RELEASE_PAGE),
         release_notes |-> release_notes,
         release_summary |-> Summary(release_notes)]

NoInfo == [version |-> None, release_url |-> NoUrl,
           release_notes |-> None, release_summary |-> None]

\* The value _fetch_latest_release returns for the outcome `resp` of the GET:
\* ok = FALSE stands for None. A null tag_name makes tag.lstrip raise, which
\* the last except clause turns into None, as it does a body that is not JSON
\* or not an object.
fetch_latest_release(resp) ==
    IF resp.kind = "json" /\ resp.status = 200 /\ resp.data.tag_name # None
    THEN [ok |-> TRUE, info |-> ReleaseDict(resp.data)]
    ELSE [ok |-> FALSE, info |-> NoInfo]

\* ------------------------------------------------------ TasmotaUpdateEntity
\* __init__: the release fields are copied from the cache as it is then.
NewEntity(release_cache) ==
    [installed_version |-> None,
     latest_version |-> release_cache.version,
     release_url |-> release_cache.release_url,
     release_summary |-> release_cache.release_summary,
     release_notes |-> release_cache.release_notes,
     update_in_progress |-> FALSE,
     version_before_update |-> None,
     suppress_availability_updates |-> FALSE,
     update_started |-> NoTime]

\* The scan with <= for <: a version equal to a threshold stops at it.
RECURSIVE FirstStepAbove_AtLeast(_, _)
FirstStepAbove_AtLeast(current, i) ==
    IF i > Len(UPGRADE_STEPS) THEN 0
    ELSE IF ~VersionLess(UPGRADE_STEPS[i].threshold, current) THEN i
    ELSE FirstStepAbove_AtLeast(current, i + 1)

\* The scan ending on the last step instead of falling through.
RECURSIVE FirstStepAbove_Last(_, _)
FirstStepAbove_Last(current, i) ==
    IF i >= Len(UPGRADE_STEPS) THEN Len(UPGRADE_STEPS)
    ELSE IF VersionLess(current, UPGRADE_STEPS[i].threshold) THEN i
    ELSE FirstStepAbove_Last(current, i + 1)

\* The scan that skips the steps with no url.
RECURSIVE FirstStepAbove_SkipManual(_, _)
FirstStepAbove_SkipManual(current, i) ==
    IF i > Len(UPGRADE_STEPS) THEN 0
    ELSE IF /\ VersionLess(current, UPGRADE_STEPS[i].threshold)
            /\ UPGRADE_STEPS[i].url # NoUrl THEN i
    ELSE FirstStepAbove_SkipManual(current, i + 1)

\* Index of the first step of UPGRADE_STEPS from i on whose threshold exceeds
\* current; 0 when the loop falls through.
RECURSIVE FirstStepAbove(_, _)
FirstStepAbove(current, i) ==
    IF i > Len(UPGRADE_STEPS) THEN 0
    ELSE IF VersionLess(current, UPGRADE_STEPS[i].threshold) THEN i
    ELSE FirstStepAbove(current, i + 1)

\* _get_next_upgrade_target: (target_version, url), with the warning it logs.
get_next_upgrade_target(self) ==
    IF ~Truthy(self.installed_version)
    THEN [target |-> None, url |-> NoUrl, logs |-> {}]
    ELSE LET current == Version(self.installed_version)
         IN  IF ~current.ok
             THEN [target |-> None, url |-> NoUrl, logs |-> {"cannot_parse"}]
             ELSE LET i == FirstStepAbove(current, 1)
                  IN  IF i > 0
                      THEN [target |-> VersionStr(UPGRADE_STEPS[i].threshold),
                            url |-> UPGRADE_STEPS[i].url, logs |-> {}]
                      ELSE [target |-> self.latest_version,
                            url |-> LATEST_URL, logs |-> {}]

\* The latest_version property without the staged target.
latest_version_NoStaging(self) == self.latest_version

\* The latest_version property.
latest_version(self) ==
    IF ~Truthy(self.installed_version) THEN self.latest_version
    ELSE LET next_target == get_next_upgrade_target(self).target
         IN  IF Truthy(next_target) /\ next_target # self.latest_version
             THEN next_target
             ELSE self.latest_version

\* The in_progress property.
in_progress(self) == self.update_in_progress

\* TasmotaAvailability (entity.py): available returns the connectivity last
\* stored, and availability_updated stores the signalled one.
TasmotaAvailability_available(stored) == stored

TasmotaAvailability_availability_updated(stored, signal) == signal

\* The available property.
available(self, stored) ==
    IF self.update_in_progress THEN TRUE
    ELSE TasmotaAvailability_available(stored)

\* availability_updated without the test of the suppress flag.
availability_updated_Unsuppressed(self, stored, signal) ==
    [stored |-> TasmotaAvailability_availability_updated(stored, signal),
     logs |-> {}]

\* availability_updated: the connectivity TasmotaAvailability stores
\* afterwards, with the debug line logged when the signal is suppressed.
availability_updated(self, stored, signal) ==
    IF self.suppress_availability_updates
    THEN [stored |-> stored, logs |-> {"suppressing"}]
    ELSE [stored |-> TasmotaAvailability_availability_updated(stored, signal),
          logs |-> {}]

\* _on_release_update that also ends the session.
on_release_update_EndsSession(self, release_info) ==
    [self EXCEPT !.latest_version = release_info.version,
                 !.release_url = release_info.release_url,
                 !.release_summary = release_info.release_summary,
                 !.release_notes = release_info.release_notes,
                 !.update_in_progress = FALSE]

\* async_release_notes: the warning prepended to the notes, with the target
\* and url resolved for it (the resolver is called only when an installed
\* version is known).
async_release_notes(self) ==
    LET notes == IF Truthy(self.release_notes) THEN self.release_notes
                 ELSE EmptyStr
    IN  IF ~Truthy(self.installed_version)
        THEN [warning |-> "none", notes |-> notes, target |-> None,
              url |-> NoUrl, logs |-> {}]
        ELSE LET next == get_next_upgrade_target(self)
             IN  [warning |->
                      IF Truthy(next.target) /\ next.target # self.latest_version
                      THEN IF next.url = NoUrl THEN "manual" ELSE "staged"
                      ELSE "none",
                  notes |-> notes, target |-> next.target, url |-> next.url,
                  logs |-> next.logs]

\* _on_release_update that takes the release for the installed version.
on_release_update_GuessInstalled(self, release_info) ==
    [self EXCEPT !.latest_version = release_info.version,
                 !.release_url = release_info.release_url,
                 !.release_summary = release_info.release_summary,
                 !.release_notes = release_info.release_notes,
                 !.installed_version = release_info.version]

\* _on_release_update
on_release_update(self, release_info) ==
    [self EXCEPT !.latest_version = release_info.version,
                 !.release_url = release_info.release_url,
                 !.release_summary = release_info.release_summary,
                 !.release_notes = release_info.release_notes]

\* The four assignments that end a session.
ClearSession(self) ==
    [self EXCEPT !.update_in_progress = FALSE,
                 !.suppress_availability_updates = FALSE,
                 !.version_before_update = None,
                 !.update_started = NoTime]

\* The timeout test with >= for >.
TimedOut_AtLeast(self, utcnow) ==
    utcnow - self.update_started[1] >= UPDATE_TIMEOUT

\* dt_util.utcnow() - self._update_started > UPDATE_TIMEOUT
TimedOut(self, utcnow) == utcnow - self.update_started[1] > UPDATE_TIMEOUT

\* _on_state_callback, first block: the timeout check. A datetime is always
\* truthy, so the second conjunct of the guard is "is not None".
CheckTimeout(self, utcnow) ==
    IF /\ self.update_in_progress
       /\ self.update_started # NoTime
       /\ TimedOut(self, utcnow)
    THEN [ent |-> ClearSession(self), logs |-> {"timed_out"}]
    ELSE [ent |-> self, logs |-> {}]

\* The second block with the version comparison inverted.
CheckCompleted_Inverted(self, new_version) ==
    IF ~self.update_in_progress THEN [ent |-> self, logs |-> {}]
    ELSE IF Truthy(new_version) /\ new_version = self.version_before_update
    THEN [ent |-> ClearSession(self), logs |-> {"completed"}]
    ELSE IF Truthy(new_version)
    THEN [ent |-> ClearSession(self), logs |-> {"back_online"}]
    ELSE [ent |-> self, logs |-> {}]

\* The second block without its elif branch.
CheckCompleted_NoSettle(self, new_version) ==
    IF ~self.update_in_progress THEN [ent |-> self, logs |-> {}]
    ELSE IF Truthy(new_version) /\ new_version # self.version_before_update
    THEN [ent |-> ClearSession(self), logs |-> {"completed"}]
    ELSE [ent |-> self, logs |-> {}]

\* The second block settling on any report, an empty one included.
CheckCompleted_AnyReport(self, new_version) ==
    IF ~self.update_in_progress THEN [ent |-> self, logs |-> {}]
    ELSE IF Truthy(new_version) /\ new_version # self.version_before_update
    THEN [ent |-> ClearSession(self), logs |-> {"completed"}]
    ELSE [ent |-> ClearSession(self), logs |-> {"back_online"}]

\* _on_state_callback, second block: completion or settle.
CheckCompleted(self, new_version) ==
    IF ~self.update_in_progress THEN [ent |-> self, logs |-> {}]
    ELSE IF Truthy(new_version) /\ new_version # self.version_before_update
    THEN [ent |-> ClearSession(self), logs |-> {"completed"}]
    ELSE IF Truthy(new_version)
    THEN [ent |-> ClearSession(self), logs |-> {"back_online"}]
    ELSE [ent |-> self, logs |-> {}]

\* _on_state_callback
on_state_callback(self, version, utcnow) ==
    LET new_version == parse_installed_version(version)
        a == CheckTimeout(self, utcnow)
        b == CheckCompleted(a.ent, new_version)
    IN  [ent |-> [b.ent EXCEPT !.installed_version = new_version],
         logs |-> a.logs \cup b.logs]

\* The rejection test with the target's truth value inverted.
ManualUpgradeRequired_NoTarget(next) == next.url = NoUrl /\ ~Truthy(next.target)

\* async_install, the test that rejects the request: a target with no url.
ManualUpgradeRequired(next) == next.url = NoUrl /\ Truthy(next.target)

\* The start of a session that keeps the start time of a session already in
\* progress.
StartSession_KeepStart(self, utcnow) ==
    [self EXCEPT !.version_before_update = self.installed_version,
                 !.update_in_progress = TRUE,
                 !.suppress_availability_updates = TRUE,
                 !.update_started = IF self.update_in_progress
                                    THEN self.update_started ELSE <<utcnow>>]

\* The start of a session without the suppress flag.
StartSession_NoSuppress(self, utcnow) ==
    [self EXCEPT !.version_before_update = self.installed_version,
                 !.update_in_progress = TRUE,
                 !.update_started = <<utcnow>>]

\* async_install, the four assignments that start a session.
StartSession(self, utcnow) ==
    [self EXCEPT !.version_before_update = self.installed_version,
                 !.update_in_progress = TRUE,
                 !.suppress_availability_updates = TRUE,
                 !.update_started = <<utcnow>>]

\* The log calls of an accepted async_install.
InstallLogs(self, next) ==
    next.logs \cup {"starting"} \cup
        (IF Truthy(next.target) /\ next.target # self.latest_version
         THEN {"staged"} ELSE {})

\* async_install with the call of update_firmware made twice.
async_install_PublishTwice(self, utcnow) ==
    LET next == get_next_upgrade_target(self)
    IN  IF ManualUpgradeRequired(next)
        THEN [accepted |-> FALSE, ent |-> self, url |-> NoUrl,
              target |-> next.target, calls |-> <<>>,
              logs |-> next.logs \cup {"manual_required"}]
        ELSE [accepted |-> TRUE,
              ent |-> StartSession(self, utcnow),
              url |-> next.url,
              target |-> next.target,
              calls |-> <<next.url, next.url>>,
              logs |-> InstallLogs(self, next)]

\* async_install handing LATEST_URL to update_firmware whatever was resolved.
async_install_LatestUrl(self, utcnow) ==
    LET next == get_next_upgrade_target(self)
    IN  IF ManualUpgradeRequired(next)
        THEN [accepted |-> FALSE, ent |-> self, url |-> NoUrl,
              target |-> next.target, calls |-> <<>>,
              logs |-> next.logs \cup {"manual_required"}]
        ELSE [accepted |-> TRUE,
              ent |-> StartSession(self, utcnow),
              url |-> LATEST_URL,
              target |-> next.target,
              calls |-> <<LATEST_URL>>,
              logs |-> InstallLogs(self, next)]

\* async_install up to the publish: rejected, or the session it starts, the
\* target resolved, and the calls of update_firmware with the url of each.
async_install(self, utcnow) ==
    LET next == get_next_upgrade_target(self)
    IN  IF ManualUpgradeRequired(next)
        THEN [accepted |-> FALSE, ent |-> self, url |-> NoUrl,
              target |-> next.target, calls |-> <<>>,
              logs |-> next.logs \cup {"manual_required"}]
        ELSE [accepted |-> TRUE,
              ent |-> StartSession(self, utcnow),
              url |-> next.url,
              target |-> next.target,
              calls |-> <<next.url>>,
              logs |-> next.logs \cup {"starting"} \cup
                  (IF Truthy(next.target) /\ next.target # self.latest_version
                   THEN {"staged"} ELSE {})]

\* --------------------------------------------------- _refresh_latest_release
\* The body after the fetch returned `fetched`: the cache afterwards and
\* whether the release update was dispatched. _now is the timer's argument,
\* None on the call at set-up.
refresh_latest_release(release_cache, fetched, _now) ==
    IF fetched.ok
    THEN [cache |-> [version |-> fetched.info.version,
                     release_url |-> fetched.info.release_url,
                     release_summary |-> fetched.info.release_summary,
                     release_notes |-> fetched.info.release_notes,
                     last_check |-> _now],
          sent |-> TRUE]
    ELSE [cache |-> release_cache, sent |-> FALSE]

\* ------------------------------------------------------------ environment
Entities == {"e1", "e2"}

\* Version strings a device reports.
R_2_0_0 == <<"2", ".", "0", ".", "0">>
R_3_9_0 == <<"3", ".", "9", ".", "0">>
R_6_0_0 == <<"6", ".", "0", ".", "0", "(", "t", "a", "s", "m", "o", "t", "a", ")">>
R_12_0_0 == <<"1", "2", ".", "0", ".", "0", "(", "t", "a", "s", "m", "o", "t", "a", ")">>
R_letters == <<"x">>
R_trailing_dot == <<"1", "2", ".">>

RawReports == {EmptyStr, R_2_0_0, R_3_9_0, R_6_0_0, R_12_0_0, R_letters, R_trailing_dot}

\* Release payloads and the outcomes of the GET.
Tag_14_3_0 == <<"v", "1", "4", ".", "3", ".", "0">>
Tag_15_0_0 == <<"v", "1", "5", ".", "0", ".", "0">>
Body_A == <<"#", " ", "A", "\n", "\n", "m", "o", "r", "e">>
Body_B == <<"*", "B", "*">>

Data_A == [tag_name |-> Tag_14_3_0,
           html_url |-> "https://github.com/arendst/Tasmota/releases/tag/v14.3.0",
           body |-> Body_A]
Data_B == [tag_name |-> Tag_15_0_0,
           html_url |-> "https://github.com/arendst/Tasmota/releases/tag/v15.0.0",
           body |-> Body_B]
Data_empty == [tag_name |-> Absent, html_url |-> AbsentUrl, body |-> Absent]
Data_null_tag == [tag_name |-> None, html_url |-> AbsentUrl, body |-> Absent]

Responses ==
    { [kind |-> "timeout", status |-> 0, data |-> Data_empty],
      [kind |-> "client_error", status |-> 0, data |-> Data_empty],
      [kind |-> "json", status |-> 404, data |-> Data_empty],
      [kind |-> "bad_json", status |-> 200, data |-> Data_empty],
      [kind |-> "not_object", status |-> 200, data |-> Data_empty],
      [kind |-> "json", status |-> 200, data |-> Data_null_tag],
      [kind |-> "json", status |-> 200, data |-> Data_empty],
      [kind |-> "json", status |-> 200, data |-> Data_A],
      [kind |-> "json", status |-> 200, data |-> Data_B] }

\* ------------------------------------------------------------------ state
VARIABLES
    now,            \* dt_util.utcnow(), in minutes
    release_cache,  \* _release_cache
    refreshPc,      \* "fetching" while _refresh_latest_release awaits the fetch
    refreshArg,     \* the _now argument of the running refresh
    setupDone,      \* async_setup_entry has connected async_discover
    nRefresh,       \* periodic refreshes started
    inbox,          \* release updates dispatched to an entity, not yet run
    phase,          \* "absent", "constructed", "polling" or "added"
    ent,            \* the entity's attributes
    stored,         \* TasmotaAvailability._available
    published,      \* upgrade commands published for the entity
    signalled,      \* the device's most recent availability signal
    ev              \* the last step taken, with what it logged

vars == <<now, release_cache, refreshPc, refreshArg, setupDone, nRefresh,
          inbox, phase, ent, stored, published, signalled, ev>>

\* op: the step; e: its entity; logs: the log calls it made; outcome: how it
\* ended; version: the raw version of a report; url: the url handed to
\* update_firmware; sent: whether the release update was dispatched; target:
\* the target version the step resolved; busy: whether the step began with
\* a session in progress.
Event(op, e, logs, outcome, version, url, sent, target, busy) ==
    [op |-> op, e |-> e, logs |-> logs, outcome |-> outcome,
     version |-> version, url |-> url, sent |-> sent, target |-> target,
     busy |-> busy]

EmptyCache ==
    [version |-> None, release_url |-> NoUrl, release_summary |-> None,
     release_notes |-> None, last_check |-> NoTime]

Init ==
    /\ now = 0
    /\ release_cache = EmptyCache
    /\ refreshPc = "fetching"
    /\ refreshArg = NoTime
    /\ setupDone = FALSE
    /\ nRefresh = 0
    /\ inbox = [e \in Entities |-> <<>>]
    /\ phase = [e \in Entities |-> "absent"]
    /\ ent = [e \in Entities |-> NewEntity(EmptyCache)]
    /\ stored = [e \in Entities |-> FALSE]
    /\ published = [e \in Entities |-> 0]
    /\ signalled = [e \in Entities |-> "none"]
    /\ ev = Event("init", "-", {}, "-", EmptyStr, NoUrl, FALSE, None, FALSE)

\* A minute passes (the clock stops at `bound`).
Tick(bound) ==
    /\ now < bound
    /\ now' = now + 1
    /\ ev' = Event("tick", "-", {}, "-", EmptyStr, NoUrl, FALSE, None, FALSE)
    /\ UNCHANGED <<release_cache, refreshPc, refreshArg, setupDone, nRefresh,
                   inbox, phase, ent, stored, published,
                   signalled>>

\* The interval timer fires and _refresh_latest_release(now) starts its fetch.
RefreshStart ==
    /\ setupDone
    /\ refreshPc = "idle"
    /\ nRefresh < MaxRefresh
    /\ refreshPc' = "fetching"
    /\ refreshArg' = <<now>>
    /\ nRefresh' = nRefresh + 1
    /\ ev' = Event("refresh_start", "-", {}, "-", EmptyStr, NoUrl, FALSE, None, FALSE)
    /\ UNCHANGED <<now, release_cache, setupDone, inbox, phase, ent, stored,
                   published,
                   signalled>>

\* The class of a GET outcome, as the spec's error taxonomy names it.
Outcome(resp) ==
    IF resp.kind = "json" /\ resp.status # 200 THEN "http_error"
    ELSE IF resp.kind = "json" /\ resp.data.tag_name = Absent THEN "missing_tag"
    ELSE IF resp.kind = "json" /\ resp.data.tag_name = None THEN "null_tag"
    ELSE IF resp.kind = "json" THEN "ok"
    ELSE resp.kind

\* The fetch of the running refresh ends with `resp`; the cache is updated and
\* the release update dispatched to the entities subscribed at that moment.
\* The refresh at set-up is followed by the connection of async_discover.
RefreshFinish(resp) ==
    /\ refreshPc = "fetching"
    /\ LET r == refresh_latest_release(release_cache,
                                       fetch_latest_release(resp), refreshArg)
           info == [version |-> r.cache.version,
                    release_url |-> r.cache.release_url,
                    release_summary |-> r.cache.release_summary,
                    release_notes |-> r.cache.release_notes]
       IN  /\ release_cache' = r.cache
           /\ inbox' = [e \in Entities |->
                          IF r.sent /\ phase[e] = "added"
                          THEN Append(inbox[e], info) ELSE inbox[e]]
           /\ ev' = Event("refresh", "-", {}, Outcome(resp), EmptyStr, NoUrl, r.sent, None, FALSE)
    /\ refreshPc' = "idle"
    /\ setupDone' = TRUE
    /\ UNCHANGED <<now, refreshArg, nRefresh, phase, ent, stored, published,
                   signalled>>

\* The dispatcher runs _on_release_update of a subscribed entity.
Deliver(e) ==
    /\ inbox[e] # <<>>
    /\ ent' = [ent EXCEPT ![e] = on_release_update(ent[e], Head(inbox[e]))]
    /\ inbox' = [inbox EXCEPT ![e] = Tail(inbox[e])]
    /\ ev' = Event("deliver", e, {}, "-", EmptyStr, NoUrl, FALSE, None, FALSE)
    /\ UNCHANGED <<now, release_cache, refreshPc, refreshArg, setupDone,
                   nRefresh, phase, stored, published,
                   signalled>>

\* async_discover constructs the entity of a newly discovered device.
Discover(e) ==
    /\ setupDone
    /\ phase[e] = "absent"
    /\ phase' = [phase EXCEPT ![e] = "constructed"]
    /\ ent' = [ent EXCEPT ![e] = NewEntity(release_cache)]
    /\ ev' = Event("discover", e, {}, "-", EmptyStr, NoUrl, FALSE, None, FALSE)
    /\ UNCHANGED <<now, release_cache, refreshPc, refreshArg, setupDone,
                   nRefresh, inbox, stored, published,
                   signalled>>

\* async_added_to_hass up to the await of poll_status: the callbacks are set.
AddedStart(e) ==
    /\ phase[e] = "constructed"
    /\ phase' = [phase EXCEPT ![e] = "polling"]
    /\ ev' = Event("added_start", e, {}, "-", EmptyStr, NoUrl, FALSE, None, FALSE)
    /\ UNCHANGED <<now, release_cache, refreshPc, refreshArg, setupDone,
                   nRefresh, inbox, ent, stored, published,
                   signalled>>

\* async_added_to_hass after poll_status: the entity subscribes to the
\* release update signal.
AddedFinish(e) ==
    /\ phase[e] = "polling"
    /\ phase' = [phase EXCEPT ![e] = "added"]
    /\ ev' = Event("added", e, {}, "-", EmptyStr, NoUrl, FALSE, None, FALSE)
    /\ UNCHANGED <<now, release_cache, refreshPc, refreshArg, setupDone,
                   nRefresh, inbox, ent, stored, published,
                   signalled>>

\* The device reports its firmware version: _on_state_callback(version).
Report(e, version) ==
    /\ phase[e] \in {"polling", "added"}
    /\ \E r \in {on_state_callback(ent[e], version, now)} :
           /\ ent' = [ent EXCEPT ![e] = r.ent]
           /\ ev' = Event("report", e, r.logs, "-", version, NoUrl, FALSE, None, FALSE)
    /\ UNCHANGED <<now, release_cache, refreshPc, refreshArg, setupDone,
                   nRefresh, inbox, phase, stored, published,
                   signalled>>

\* The device's availability changes: availability_updated(signal).
Availability(e, signal) ==
    /\ phase[e] \in {"polling", "added"}
    /\ signalled' = [signalled EXCEPT ![e] =
                         IF signal THEN "online" ELSE "offline"]
    /\ \E r \in {availability_updated(ent[e], stored[e], signal)} :
           /\ stored' = [stored EXCEPT ![e] = r.stored]
           /\ ev' = Event("availability", e, r.logs,
                          IF signal THEN "online" ELSE "offline",
                          EmptyStr, NoUrl, FALSE, None, FALSE)
    /\ UNCHANGED <<now, release_cache, refreshPc, refreshArg, setupDone,
                   nRefresh, inbox, phase, ent, published>>

\* The user asks for an install: async_install. Each call of update_firmware
\* publishes a command (publish_ok) or raises; nothing follows it in
\* async_install. The count of published commands stops at `bound`.
InstallWithin(e, publish_ok, bound) ==
    /\ phase[e] = "added"
    /\ published[e] < bound
    /\ \E r \in {async_install(ent[e], now)} :
           /\ ent' = [ent EXCEPT ![e] = r.ent]
           /\ published' = [published EXCEPT ![e] =
                              IF publish_ok THEN @ + Len(r.calls) ELSE @]
           /\ ev' = Event("install", e, r.logs,
                          IF ~r.accepted THEN "rejected"
                          ELSE IF publish_ok THEN "published"
                          ELSE "publish_failed",
                          EmptyStr, r.url, FALSE, r.target,
                          ent[e].update_in_progress)
    /\ UNCHANGED <<now, release_cache, refreshPc, refreshArg, setupDone,
                   nRefresh, inbox, phase, stored,
                   signalled>>

\* The frontend asks for the release notes: async_release_notes.
ReleaseNotes(e) ==
    /\ phase[e] = "added"
    /\ \E r \in {async_release_notes(ent[e])} :
           ev' = Event("release_notes", e, r.logs, r.warning, EmptyStr,
                       r.url, FALSE, r.target, ent[e].update_in_progress)
    /\ UNCHANGED <<now, release_cache, refreshPc, refreshArg, setupDone,
                   nRefresh, inbox, phase, ent, stored, published,
                   signalled>>

\* `minutes` minutes pass with no step in between (the clock stops at
\* `bound`).
Elapse(minutes, bound) ==
    /\ now + minutes <= bound
    /\ now' = now + minutes
    /\ ev' = Event("tick", "-", {}, "-", EmptyStr, NoUrl, FALSE, None, FALSE)
    /\ UNCHANGED <<release_cache, refreshPc, refreshArg, setupDone, nRefresh,
                   inbox, phase, ent, stored, published, signalled>>

Install(e, publish_ok) == InstallWithin(e, publish_ok, MaxPublished)

\* The first status report of a device, before any install request.
FirstReport(e, version) ==
    /\ ent[e].installed_version = None
    /\ published[e] = 0
    /\ ~ent[e].update_in_progress
    /\ Report(e, version)

\* An install requested once the previous one has completed.
InstallHop(e) ==
    /\ ~ent[e].update_in_progress
    /\ InstallWithin(e, TRUE, MaxHops)

\* The device comes back from the upgrade just published and reports the
\* version that was the target of the install request.
ReportTarget(e) ==
    /\ ev.op = "install"
    /\ ev.e = e
    /\ ev.outcome = "published"
    /\ Truthy(ev.target)
    /\ Report(e, ev.target)

\* The update session of one device: set-up with its refresh, discovery of
\* the device, its reports and availability signals, install requests, the
\* clock.
Next ==
    \/ Tick(MaxTime)
    \/ \E resp \in Responses : RefreshFinish(resp)
    \/ \E e \in {"e1"} : Discover(e)
    \/ \E e \in {"e1"} : AddedStart(e)
    \/ \E e \in {"e1"} : AddedFinish(e)
    \/ \E e \in {"e1"}, version \in RawReports : Report(e, version)
    \/ \E e \in {"e1"}, signal \in BOOLEAN : Availability(e, signal)
    \/ \E e \in {"e1"}, publish_ok \in BOOLEAN : Install(e, publish_ok)

Spec == Init /\ [][Next]_vars

\* The release cache and its fan-out to two devices' entities: set-up,
\* periodic refreshes, discovery and subscription of the entities, delivery
\* of the release updates, the clock.
NextRelease ==
    \/ Tick(MaxReleaseTime)
    \/ RefreshStart
    \/ \E resp \in Responses : RefreshFinish(resp)
    \/ \E e \in Entities : Deliver(e)
    \/ \E e \in Entities : Discover(e)
    \/ \E e \in Entities : AddedStart(e)
    \/ \E e \in Entities : AddedFinish(e)

SpecRelease == Init /\ [][NextRelease]_vars

\* The version a.b.c as a device reports it.
Dotted(v) == IntStr(v[1]) \o <<".">> \o IntStr(v[2]) \o <<".">> \o IntStr(v[3])

\* Reports around every threshold of UPGRADE_STEPS, on it and past the last,
\* with two-component and one-component versions, a build suffix and the
\* strings that do not parse.
ResolverVersions ==
    { <<2, 0, 0>>, <<3, 8, 9>>, <<3, 9, 0>>, <<3, 9, 1>>, <<4, 0, 0>>,
      <<4, 0, 1>>, <<5, 13, 9>>, <<5, 14, 0>>, <<6, 0, 0>>, <<6, 7, 0>>,
      <<6, 7, 1>>, <<7, 1, 9>>, <<7, 2, 0>>, <<8, 5, 0>>, <<8, 5, 1>>,
      <<9, 0, 9>>, <<9, 1, 0>>, <<9, 1, 1>>, <<12, 0, 0>>, <<14, 3, 0>> }

R_5_14 == <<"5", ".", "1", "4">>
R_10 == <<"1", "0">>

ResolverReports ==
    { Dotted(v) : v \in ResolverVersions }
        \cup {EmptyStr, R_letters, R_trailing_dot, R_5_14, R_10, R_6_0_0}

\* The resolver behind the release notes and the install request of one
\* device: set-up with its refresh, a later refresh and its delivery,
\* discovery of the device, its reports, the two requests.
NextResolver ==
    \/ RefreshStart
    \/ \E resp \in Responses : RefreshFinish(resp)
    \/ \E e \in {"e1"} : Deliver(e)
    \/ \E e \in {"e1"} : Discover(e)
    \/ \E e \in {"e1"} : AddedStart(e)
    \/ \E e \in {"e1"} : AddedFinish(e)
    \/ \E e \in {"e1"}, version \in ResolverReports : Report(e, version)
    \/ \E e \in {"e1"} : ReleaseNotes(e)

SpecResolver == Init /\ [][NextResolver]_vars

\* Reports and GET outcomes of the device whose sessions run beside the
\* periodic refresh.
SessionReports == {EmptyStr, R_12_0_0}

SessionResponses ==
    { [kind |-> "timeout", status |-> 0, data |-> Data_empty],
      [kind |-> "json", status |-> 200, data |-> Data_A] }

\* The clock's step beside the periodic refresh, in minutes.
SessionStep == 3

\* The update session of one device beside the periodic refresh: the
\* handlers that change the entity or the cache, the clock in steps of
\* SessionStep.
NextSession ==
    \/ Elapse(SessionStep, MaxTime)
    \/ RefreshStart
    \/ \E resp \in SessionResponses : RefreshFinish(resp)
    \/ \E e \in {"e1"} : Deliver(e)
    \/ \E e \in {"e1"} : Discover(e)
    \/ \E e \in {"e1"} : AddedStart(e)
    \/ \E e \in {"e1"} : AddedFinish(e)
    \/ \E e \in {"e1"}, version \in SessionReports : Report(e, version)
    \/ \E e \in {"e1"}, signal \in BOOLEAN : Availability(e, signal)
    \/ \E e \in {"e1"}, publish_ok \in BOOLEAN : Install(e, publish_ok)

SpecSession == Init /\ [][NextSession]_vars

\* One device followed along its staged upgrade path: set-up with its
\* refresh, discovery, the device's first report, then install requests each
\* answered by the device reporting the target it was sent to.
NextStaged ==
    \/ \E resp \in Responses : RefreshFinish(resp)
    \/ \E e \in {"e1"} : Discover(e)
    \/ \E e \in {"e1"} : AddedStart(e)
    \/ \E e \in {"e1"} : AddedFinish(e)
    \/ \E e \in {"e1"}, version \in ResolverReports : FirstReport(e, version)
    \/ \E e \in {"e1"} : InstallHop(e)
    \/ \E e \in {"e1"} : ReportTarget(e)

SpecStaged == Init /\ [][NextStaged]_vars

\* ================================================================ claims
\* The session fields of an entity with no session.
IdleSession(self) ==
    /\ ~self.update_in_progress
    /\ ~self.suppress_availability_updates
    /\ self.version_before_update = None
    /\ self.update_started = NoTime

\* The installed version parses and is below 4.0.0.
BelowFour(self) ==
    /\ Version(self.installed_version).ok
    /\ VersionLess(Version(self.installed_version), Version(V_4_0_0))

\* The step taken is `op` on entity e.
Did(op, e) == ev'.op = op /\ ev'.e = e

\* C1: an install requested while the installed version parses and is below
\* 4.0.0 is rejected: after it the session is Idle and the count of published
\* upgrade commands is what it was.
C1_ManualInstallRejected ==
    [][\A e \in Entities :
          Did("install", e) /\ BelowFour(ent[e])
          => /\ ev'.outcome = "rejected"
             /\ IdleSession(ent'[e])
             /\ published'[e] = published[e]]_vars

C1_Witness ==
    /\ ev.op = "install"
    /\ ev.outcome = "rejected"
    /\ ent["e1"].installed_version = R_3_9_0
    /\ IdleSession(ent["e1"])
    /\ published["e1"] = 0

\* C2: every install request whose target is not manual-required is accepted
\* and leaves the session Installing: versionBeforeUpdate is the installed
\* version held when it was made, startedAt the time it was made, and
\* suppressAvailability and inProgress are set.
C2_AcceptedInstallStartsSession ==
    [][\A e \in Entities :
          Did("install", e) /\ ~BelowFour(ent[e])
          => /\ ev'.outcome # "rejected"
             /\ ent'[e].version_before_update = ent[e].installed_version
             /\ ent'[e].update_started = <<now>>
             /\ ent'[e].suppress_availability_updates
             /\ ent'[e].update_in_progress]_vars

C2_Witness ==
    /\ ev.op = "install"
    /\ ev.outcome = "published"
    /\ now = 2
    /\ ent["e1"].update_in_progress
    /\ ent["e1"].suppress_availability_updates
    /\ ent["e1"].version_before_update = <<"1", "2", ".", "0", ".", "0">>
    /\ ent["e1"].update_started = <<2>>

\* Minutes between the start of e's session and now.
Elapsed(e) == now - ent[e].update_started[1]

\* C3: a report handled while Installing more than 5 minutes after startedAt
\* ends the session as timed out, whatever version it carries: the session is
\* Idle afterwards and the only outcome logged is the timeout, not a
\* completion; a report at 5 minutes or earlier logs no timeout.
C3_LateReportTimesOut ==
    [][\A e \in Entities :
          Did("report", e) /\ ent[e].update_in_progress
          => IF Elapsed(e) > 5
             THEN IdleSession(ent'[e]) /\ ev'.logs = {"timed_out"}
             ELSE "timed_out" \notin ev'.logs]_vars

\* A report with a new version, six minutes after the start, timed out.
C3_Witness ==
    /\ ev.op = "report"
    /\ ev.logs = {"timed_out"}
    /\ ev.version = R_12_0_0
    /\ now = 6
    /\ IdleSession(ent["e1"])

\* C4: a report handled while Installing within the 5 minutes, whose parsed
\* version is non-empty and differs from versionBeforeUpdate, completes the
\* update: completion is logged, the session is Idle afterwards and the
\* installed version is the parsed reported one.
C4_ChangedVersionCompletes ==
    [][\A e \in Entities :
          LET new_version == parse_installed_version(ev'.version)
          IN  /\ Did("report", e)
              /\ ent[e].update_in_progress
              /\ Elapsed(e) <= 5
              /\ new_version # EmptyStr
              /\ new_version # ent[e].version_before_update
              => /\ ev'.logs = {"completed"}
                 /\ IdleSession(ent'[e])
                 /\ ent'[e].installed_version = new_version]_vars

C4_Witness ==
    /\ ev.op = "report"
    /\ ev.logs = {"completed"}
    /\ ev.version = R_12_0_0
    /\ ent["e1"].installed_version = <<"1", "2", ".", "0", ".", "0">>
    /\ IdleSession(ent["e1"])
    /\ published["e1"] = 1

\* C5 as claimed: a report handled while Installing within the 5 minutes whose
\* parsed version equals versionBeforeUpdate leaves the session Idle, with no
\* completion logged.
C5_SameVersionSettles_Original ==
    [][\A e \in Entities :
          /\ Did("report", e)
          /\ ent[e].update_in_progress
          /\ Elapsed(e) <= 5
          /\ parse_installed_version(ev'.version) = ent[e].version_before_update
          => IdleSession(ent'[e]) /\ "completed" \notin ev'.logs]_vars

\* C5: a report handled while Installing within the 5 minutes whose parsed
\* version is non-empty and equals versionBeforeUpdate leaves the session
\* Idle, with the device logged as back online and no completion logged.
C5_SameVersionSettles ==
    [][\A e \in Entities :
          LET new_version == parse_installed_version(ev'.version)
          IN  /\ Did("report", e)
              /\ ent[e].update_in_progress
              /\ Elapsed(e) <= 5
              /\ new_version # EmptyStr
              /\ new_version = ent[e].version_before_update
              => /\ IdleSession(ent'[e])
                 /\ ev'.logs = {"back_online"}]_vars

C5_Witness ==
    /\ ev.op = "report"
    /\ ev.logs = {"back_online"}
    /\ ev.version = R_12_0_0
    /\ IdleSession(ent["e1"])
    /\ published["e1"] = 1

\* C6: an availability signal handled while suppressAvailability is set
\* changes neither the stored connectivity nor the availability the entity
\* reports, and the entity reports itself available.
C6_SuppressedSignalSwallowed ==
    [][\A e \in Entities :
          Did("availability", e) /\ ent[e].suppress_availability_updates
          => /\ stored'[e] = stored[e]
             /\ available(ent'[e], stored'[e]) = available(ent[e], stored[e])
             /\ available(ent'[e], stored'[e])]_vars

\* An offline signal was swallowed: the stored connectivity is still online.
C6_Witness ==
    /\ ev.op = "availability"
    /\ ev.outcome = "offline"
    /\ ent["e1"].suppress_availability_updates
    /\ stored["e1"]
    /\ available(ent["e1"], stored["e1"])

\* C7 as claimed: after an install whose publish failed the session is Idle.
C7_FailedPublishRolledBack ==
    ev.op = "install" /\ ev.outcome = "publish_failed"
    => IdleSession(ent[ev.e])

\* The four release fields of a cache or of an entity's attributes.
CacheRelease(c) ==
    <<c.version, c.release_url, c.release_summary, c.release_notes>>

EntityRelease(self) ==
    <<self.latest_version, self.release_url, self.release_summary,
      self.release_notes>>

InfoRelease(info) ==
    <<info.version, info.release_url, info.release_summary, info.release_notes>>

\* C8 as claimed: a refresh that ends in a fetch timeout, a client error, a
\* status other than 200 or a malformed payload (not JSON, not an object, an
\* object with no tag_name or a null one) leaves the cache as it was.
C8_FailedRefreshKeepsCache ==
    [][ev'.op = "refresh" /\ ev'.outcome # "ok"
       => release_cache' = release_cache]_vars

\* C9 as claimed: after a successful refresh the cache holds the release
\* fetched and the time of the refresh; no version is held while
\* last_check is unset, and the four release fields come from one payload.
C9_CacheReplacedWithTimestamp ==
    /\ ev.op = "refresh" /\ ev.outcome = "ok"
       => /\ release_cache.last_check # NoTime
          /\ \E d \in {Data_A, Data_B} :
                CacheRelease(release_cache) = InfoRelease(ReleaseDict(d))
    /\ Truthy(release_cache.version) => release_cache.last_check # NoTime
    /\ \/ CacheRelease(release_cache) = CacheRelease(EmptyCache)
       \/ \E resp \in Responses :
             CacheRelease(release_cache) = InfoRelease(ReleaseDict(resp.data))

\* C10 as claimed: the release update is dispatched by a refresh exactly when
\* the refresh succeeds; what is dispatched to a subscribed entity is what the
\* cache then holds; and an entity whose last pending update has been
\* delivered holds the cache's release fields.
C10_BroadcastOnSuccessOnly ==
    [][/\ ev'.op = "refresh"
          => /\ ev'.sent <=> ev'.outcome = "ok"
             /\ \A e \in Entities :
                   ev'.sent /\ phase[e] = "added"
                   => /\ Len(inbox'[e]) = Len(inbox[e]) + 1
                      /\ InfoRelease(inbox'[e][Len(inbox'[e])])
                            = CacheRelease(release_cache')
       /\ \A e \in Entities :
             Did("deliver", e) /\ inbox'[e] = <<>>
             => EntityRelease(ent'[e]) = CacheRelease(release_cache')]_vars

\* manualRequired, as the resolver's caller derives it from a resolved
\* target and url: a target with no url.
ManualRequired(target, url) == url = NoUrl /\ Truthy(target)

\* C11 as claimed: an install requested while no installed version is known
\* resolves the latest known version as its target and the latest generic
\* firmware url, and is not manual-required.
C11_AbsentInstalledTargetsLatest ==
    [][\A e \in Entities :
          Did("install", e) /\ ~Truthy(ent[e].installed_version)
          => /\ ev'.target = ent[e].latest_version
             /\ ev'.url = LATEST_URL
             /\ ~ManualRequired(ev'.target, ev'.url)]_vars

\* The thresholds of the staged path, in order.
ClaimedThresholds ==
    <<V_3_9_0, V_4_0_0, V_5_14_0, V_6_7_1, V_7_2_0, V_8_5_1, V_9_1_0>>

\* The installed version of e is below the i-th threshold.
Below(e, i) ==
    VersionLess(Version(ent[e].installed_version),
                Version(ClaimedThresholds[i]))

\* The release notes were just asked of e, whose installed version parses.
Resolved(e) ==
    /\ ev.op = "release_notes"
    /\ ev.e = e
    /\ Version(ent[e].installed_version).ok

\* C12: for a parseable installed version the resolver returns the threshold
\* and url of the first step of the table whose threshold is strictly
\* greater, whatever the latest version: 6.7.1 and its url for every
\* installed version in [5.14.0, 6.7.1), and never the step whose threshold
\* the installed version equals.
C12_FirstStepAbove ==
    \A e \in Entities :
        Resolved(e)
        => /\ \A i \in 1..Len(ClaimedThresholds) :
                 Below(e, i) /\ (\A j \in 1..(i - 1) : ~Below(e, j))
                 => /\ ev.target = ClaimedThresholds[i]
                    /\ ev.url = UPGRADE_STEPS[i].url
           /\ ~Below(e, 3) /\ Below(e, 4)
              => /\ ev.target = <<"6", ".", "7", ".", "1">>
                 /\ ev.url = "http://ota.tasmota.com/tasmota/release_6.7.1/sonoff.bin"
           /\ \A i \in 1..Len(ClaimedThresholds) :
                 /\ ~Below(e, i)
                 /\ ~VersionLess(Version(ClaimedThresholds[i]),
                                 Version(ent[e].installed_version))
                 => ev.target # ClaimedThresholds[i]

C12_Witness ==
    /\ ev.op = "release_notes"
    /\ ent["e1"].installed_version = <<"5", ".", "1", "4">>
    /\ ent["e1"].latest_version = <<"1", "5", ".", "0", ".", "0">>
    /\ ev.target = <<"6", ".", "7", ".", "1">>
    /\ ev.url = "http://ota.tasmota.com/tasmota/release_6.7.1/sonoff.bin"

\* C13: for every installed version below 3.9.0 or below 4.0.0 the resolver
\* returns a target with no url (manualRequired); for every installed
\* version at or above 4.0.0 it does not.
C13_ManualBelowFour ==
    \A e \in Entities :
        Resolved(e)
        => /\ Below(e, 1) \/ Below(e, 2)
              => /\ ev.url = NoUrl
                 /\ ManualRequired(ev.target, ev.url)
           /\ ~Below(e, 2) => ~ManualRequired(ev.target, ev.url)

C13_Witness ==
    /\ ev.op = "release_notes"
    /\ ent["e1"].installed_version = <<"3", ".", "9", ".", "0">>
    /\ ev.target = <<"4", ".", "0", ".", "0">>
    /\ ev.url = NoUrl

\* C14: for every installed version at or above 9.1.0 the resolver returns
\* the latest known release version as target and the latest generic
\* firmware url, and is not manual-required.
C14_PastLastStepTargetsLatest ==
    \A e \in Entities :
        Resolved(e) /\ ~Below(e, 7)
        => /\ ev.target = ent[e].latest_version
           /\ ev.url = LATEST_URL
           /\ ~ManualRequired(ev.target, ev.url)

C14_Witness ==
    /\ ev.op = "release_notes"
    /\ ent["e1"].installed_version = <<"9", ".", "1", ".", "0">>
    /\ ev.target = <<"1", "4", ".", "3", ".", "0">>
    /\ ev.url = LATEST_URL

\* C15: in every state the latest version an entity displays is the target
\* an install request made in that state resolves, and the latest known
\* version when it resolves none: the staged hop exactly when the install
\* logs a staged upgrade, the latest known version otherwise.
C15_DisplayedIsInstallTarget ==
    \A e \in Entities :
        LET r == async_install(ent[e], now)
            displayed == latest_version(ent[e])
        IN  /\ displayed = IF Truthy(r.target) THEN r.target
                           ELSE ent[e].latest_version
            /\ "staged" \in r.logs
               => displayed = r.target /\ displayed # ent[e].latest_version
            /\ r.accepted /\ "staged" \notin r.logs
               => displayed = ent[e].latest_version

C15_Witness ==
    /\ ev.op = "install"
    /\ ev.outcome = "published"
    /\ "staged" \in ev.logs
    /\ ev.target = <<"6", ".", "7", ".", "1">>
    /\ ent["e1"].latest_version = <<"1", "4", ".", "3", ".", "0">>
    /\ latest_version(ent["e1"]) = <<"6", ".", "7", ".", "1">>

\* C16: an install requested while a session is in progress supersedes it,
\* every time: it is never rejected, and versionBeforeUpdate and startedAt
\* are both replaced by the values of the new request (the installed version
\* and the time of the request), with inProgress and suppressAvailability
\* still set, so the entity holds one session and never a mix of the two.
C16_InstallSupersedesSession ==
    [][\A e \in Entities :
          Did("install", e) /\ ent[e].update_in_progress
          => /\ ev'.outcome # "rejected"
             /\ ent'[e].version_before_update = ent[e].installed_version
             /\ ent'[e].update_started = <<now>>
             /\ ent'[e].update_in_progress
             /\ ent'[e].suppress_availability_updates]_vars

C16_Witness ==
    /\ ev.op = "install"
    /\ ev.busy
    /\ ev.outcome = "published"
    /\ published["e1"] = 2
    /\ now = 3
    /\ ent["e1"].update_started = <<3>>
    /\ ent["e1"].version_before_update = EmptyStr

\* C17: the count of published upgrade commands changes only in an install
\* step, and then by exactly one: an accepted install makes one call of
\* update_firmware, and no report (a timeout included), availability signal,
\* refresh, delivery or passage of time publishes a command.
C17_OnlyInstallPublishes ==
    [][\A e \in Entities :
          /\ published'[e] # published[e]
             => /\ Did("install", e)
                /\ ev'.outcome = "published"
                /\ published'[e] = published[e] + 1
          /\ Did("install", e) /\ ev'.outcome = "published"
             => published'[e] = published[e] + 1]_vars

C17_Witness ==
    /\ ev.op = "report"
    /\ "timed_out" \in ev.logs
    /\ published["e1"] = 1
    /\ IdleSession(ent["e1"])

\* C18: the command published by an accepted install carries the url the
\* resolver returns for the installed version held at the request; when the
\* resolver returns neither a url nor a target the install is accepted and
\* the command carries no url.
C18_PublishedUrlIsResolved ==
    [][\A e \in Entities :
          Did("install", e)
          => LET next == get_next_upgrade_target(ent[e])
             IN  /\ ev'.outcome = "published" => ev'.url = next.url
                 /\ next.url = NoUrl /\ ~Truthy(next.target)
                    => ev'.outcome # "rejected" /\ ev'.url = NoUrl]_vars

C18_Witness ==
    /\ ev.op = "install"
    /\ ev.outcome = "published"
    /\ ent["e1"].version_before_update = <<"6", ".", "0", ".", "0">>
    /\ ev.url = "http://ota.tasmota.com/tasmota/release_6.7.1/sonoff.bin"

\* C19 as claimed: whenever the session is Idle the availability the entity
\* reports is the connectivity given by the device's most recent
\* availability signal, signals that arrived during a session included.
C19_IdleAvailabilityIsConnectivity ==
    \A e \in Entities :
        IdleSession(ent[e]) /\ signalled[e] # "none"
        => (available(ent[e], stored[e]) <=> signalled[e] = "online")

\* The session fields of an entity.
SessionFields(self) ==
    <<self.update_in_progress, self.suppress_availability_updates,
      self.version_before_update, self.update_started>>

\* C20: only the handling of a status report takes a session out of
\* Installing: every other step but an install leaves the session fields of
\* an Installing entity as they are, however much time has passed, and an
\* install leaves it Installing.
C20_OnlyReportEndsSession ==
    [][\A e \in Entities :
          ent[e].update_in_progress
          => /\ ~ent'[e].update_in_progress => Did("report", e)
             /\ ~Did("report", e) /\ ~Did("install", e)
                => SessionFields(ent'[e]) = SessionFields(ent[e])]_vars

C20_Witness ==
    /\ ev.op = "deliver"
    /\ ent["e1"].update_in_progress
    /\ ent["e1"].update_started # NoTime
    /\ Elapsed("e1") > UPDATE_TIMEOUT

\* Reports whose version is empty, has no leading run of digits and dots, or
\* has one that is no version.
MalformedReports == {EmptyStr, R_letters, R_trailing_dot}

\* C21: a report whose version string is malformed is handled like any
\* other (the string is stored as the installed version, and a session is
\* left as it was or ended), and for the installed version it leaves the
\* resolver yields no target, no url and no manual-required flag, so the
\* entity displays the latest known version.
C21_MalformedReportHandled ==
    [][\A e \in Entities :
          Did("report", e) /\ ev'.version \in MalformedReports
          => LET next == get_next_upgrade_target(ent'[e])
             IN  /\ ent'[e].installed_version = ev'.version
                 /\ next.target = None
                 /\ next.url = NoUrl
                 /\ ~ManualRequired(next.target, next.url)
                 /\ latest_version(ent'[e]) = ent'[e].latest_version
                 /\ \/ IdleSession(ent'[e])
                    \/ SessionFields(ent'[e]) = SessionFields(ent[e])]_vars

C21_Witness ==
    /\ ev.op = "report"
    /\ ev.version = R_trailing_dot
    /\ "completed" \in ev.logs
    /\ ent["e1"].installed_version = R_trailing_dot
    /\ IdleSession(ent["e1"])

C23_SessionFieldsAgree ==
    \A e \in Entities :
        /\ ent[e].update_in_progress <=> ent[e].suppress_availability_updates
        /\ ent[e].update_in_progress <=> ent[e].update_started # NoTime
        /\ ent[e].version_before_update # None => ent[e].update_in_progress

C23_Witness ==
    /\ ev.op = "install"
    /\ ev.outcome = "published"
    /\ ent["e1"].update_in_progress
    /\ ent["e1"].suppress_availability_updates
    /\ ent["e1"].update_started = <<0>>
    /\ ent["e1"].version_before_update = None

\* C24: every report with a non-empty version handled while a session is
\* Installing ends the session: the entity is Idle immediately after it.
C24_NonEmptyReportEndsSession ==
    [][\A e \in Entities :
          /\ Did("report", e)
          /\ ent[e].update_in_progress
          /\ ev'.version # EmptyStr
          => /\ IdleSession(ent'[e])
             /\ ev'.logs \cap {"timed_out", "completed", "back_online"} # {}]_vars

C24_Witness ==
    /\ ev.op = "report"
    /\ ev.version = R_2_0_0
    /\ "completed" \in ev.logs
    /\ now = 1
    /\ published["e1"] = 1
    /\ IdleSession(ent["e1"])

\* C25: a report with an empty version handled while Installing, at most 5
\* minutes after startedAt, leaves the four session fields unchanged and
\* logs neither a completion nor a settle.
C25_EmptyReportKeepsSession ==
    [][\A e \in Entities :
          /\ Did("report", e)
          /\ ent[e].update_in_progress
          /\ ev'.version = EmptyStr
          /\ Elapsed(e) <= 5
          => /\ SessionFields(ent'[e]) = SessionFields(ent[e])
             /\ ev'.logs = {}]_vars

C25_Witness ==
    /\ ev.op = "report"
    /\ ev.version = EmptyStr
    /\ now = 5
    /\ ent["e1"].update_in_progress
    /\ ent["e1"].update_started = <<0>>
    /\ ent["e1"].version_before_update = <<"1", "2", ".", "0", ".", "0">>

\* C26: along a path where the device answers every install by reporting
\* the resolved target, an install from a parseable installed version at or
\* above 4.0.0 is either a staged hop, whose target is strictly above the
\* installed version and which is one of the first 5 installs, or the direct
\* install of the latest version from the generic url.
C26_StagedPathReachesLatest ==
    [][\A e \in Entities :
          /\ Did("install", e)
          /\ Version(ent[e].installed_version).ok
          /\ ~VersionLess(Version(ent[e].installed_version),
                          Version(<<"4", ".", "0", ".", "0">>))
          => /\ ev'.outcome = "published"
             /\ ev'.url # LATEST_URL
                => /\ Version(ev'.target).ok
                   /\ VersionLess(Version(ent[e].installed_version),
                                   Version(ev'.target))
                   /\ published[e] < 5
             /\ ev'.url = LATEST_URL
                => ev'.target = ent[e].latest_version]_vars

C26_Witness ==
    /\ ev.op = "install"
    /\ published["e1"] = 6
    /\ ev.url = LATEST_URL
    /\ ev.target = <<"1", "4", ".", "3", ".", "0">>
    /\ ent["e1"].version_before_update = <<"9", ".", "1", ".", "0">>

\* C27 as claimed, for a cache that holds a release fetched with its tag:
\* whenever no refresh is executing and every release update dispatched has
\* been delivered, each entity that has finished being added holds the
\* release fields of the cache.
C27_AddedEntityHoldsCache ==
    /\ refreshPc = "idle"
    /\ \A e \in Entities : inbox[e] = <<>>
    /\ \E d \in {Data_A, Data_B} :
          CacheRelease(release_cache) = InfoRelease(ReleaseDict(d))
    => \A e \in Entities :
          phase[e] = "added" => EntityRelease(ent[e]) = CacheRelease(release_cache)

====
